---- MODULE Spec2Model ----
(***************************************************************************)
(* Sparse covariance estimation (examples/notebooks/WWW/                   *)
(* sparse_covariance_est.ipynb): the solve loop of cell 2, which for each  *)
(* alpha of `alphas` builds the problem                                    *)
(*     maximize log_det(S) - tr(S Y)  s.t.  sum(abs(S)) <= alpha, S PSD,   *)
(* solves it, raises on a non-optimal status, thresholds the value of S    *)
(* in place and appends it to the list Ss.                                 *)
(*                                                                         *)
(* Matrix entries are fixed-point numbers in units of 0.5e-4, so that the  *)
(* tolerance 1e-4 of the code is the integer Tau = 2 and there are values  *)
(* strictly between 0 and the tolerance. Budgets are the integers the      *)
(* notebook uses (10, 2, 1) and the non-positive ones 0 and -1.            *)
(***************************************************************************)
EXTENDS Integers, Sequences, FiniteSets, TLC

VARIABLES
    pc,         \* position of the run in cell 2
    alphas,     \* the list of budgets (line 93)
    Y,          \* the sample covariance matrix (line 74)
    k,          \* 1-based position of the for loop in alphas (0 before it)
    alpha,      \* the loop variable (line 99)
    prob,       \* the cvx.Problem of the current iteration (line 113)
    status,     \* prob.status after prob.solve()
    S,          \* the array behind the name S once S.value is set
    Sid,        \* which array object that is
    Ss,         \* the result list (line 96)
    SsIds,      \* which array object each element of Ss is
    err,        \* the exception that ended the cell, if any
    solverLog,  \* history: one record per prob.solve() call
    arg,        \* harness of the thresholding rule: the matrix it is given
    res         \* harness: the results of its successive applications

vars == <<pc, alphas, Y, k, alpha, prob, status, S, Sid, Ss, SsIds, err, solverLog, arg, res>>

---------------------------------------------------------------------------
(* Bounds of the model *)

\* dimension of the matrices (the notebook runs with n = 10)
n == 2

\* largest magnitude of a matrix entry handed to the thresholding rule
MaxMag == 3

\* longest list of budgets
MaxBudgets == 3

---------------------------------------------------------------------------
(* Matrices *)

\* the tolerance 1e-4 of line 123, in units of 0.5e-4
Tau == 2

Idx == 1..n

Cells == Idx \X Idx

\* the builtin abs, applied entrywise by numpy
Abs(x) == IF x < 0 THEN -x ELSE x

\* A matrix given by its first diagonal entry, its other diagonal entries, its
\* entries above and its entries below the diagonal. For n = 2 these are all
\* the n x n matrices.
Mat(d1, d2, u, l) ==
    [c \in Cells |->
        IF c[1] = c[2] THEN (IF c[1] = 1 THEN d1 ELSE d2)
        ELSE IF c[1] < c[2] THEN u ELSE l]

Vals == (-MaxMag)..MaxMag

AllMatrices == {Mat(d1, d2, u, l) : d1 \in Vals, d2 \in Vals, u \in Vals, l \in Vals}

ZeroMatrix == [c \in Cells |-> 0]

\* the name S before any value is bound to it
NoValue == [c \in {} |-> 0]

\* number of rows of a square matrix
Dim(M) == CHOOSE m \in 0..Cardinality(DOMAIN M) : DOMAIN M = (1..m) \X (1..m)

\* the boolean mask abs(S) <= 1e-4
Mask(M) == [c \in DOMAIN M |-> Abs(M[c]) <= Tau]

\* a plausible slip: the comparison without abs
ThresholdSigned(M) == [c \in DOMAIN M |-> IF M[c] <= Tau THEN 0 ELSE M[c]]

\* a plausible slip: the mask applied to the upper triangle only
ThresholdUpper(M) ==
    [c \in DOMAIN M |-> IF c[1] <= c[2] /\ Abs(M[c]) <= Tau THEN 0 ELSE M[c]]

\* a plausible slip: soft thresholding (shrink by the tolerance)
ThresholdSoft(M) ==
    [c \in DOMAIN M |->
        IF Abs(M[c]) <= Tau THEN 0
        ELSE IF M[c] > 0 THEN M[c] - Tau ELSE M[c] + Tau]

\* S[abs(S) <= 1e-4] = 0
Threshold(M) == [c \in DOMAIN M |-> IF Mask(M)[c] THEN 0 ELSE M[c]]

\* a plausible slip: the new list replaces the old one
ListReplace(list, x) == <<x>>

\* a plausible slip: the new element goes first
ListPrepend(list, x) == <<x>> \o list

\* Ss += [S]
ListExtend(list, x) == list \o <<x>>

---------------------------------------------------------------------------
(* Array objects: S[...] = 0 writes into an object, and every name and list *)
(* element that is that object sees the write.                              *)

\* the array np.cov returns, named Y
ArrayOfY == <<"cov">>

\* no array: S names a cvx.Variable whose value is not set
NoArray == <<>>

\* the array a solve stores in S.value: a new one at every solve
NewArray(log) == <<"solve", Len(log) + 1>>

\* a plausible slip: one output array, reused by every iteration
WrittenArrayShared(sid, stored) == IF stored = <<>> THEN sid ELSE stored[1]

\* S = S.value: the array written by S[abs(S) <= 1e-4] = 0 is the one the
\* solve stored, not a copy and not an array kept from before
WrittenArray(sid, stored) == sid

\* the elements of a list after a write of value x into the array t
AfterWrite(list, ids, t, x) == [i \in 1..Len(list) |-> IF ids[i] = t THEN x ELSE list[i]]

---------------------------------------------------------------------------
(* Inputs *)

Budgets == {-1, 0, 1, 2, 10}

BudgetLists == UNION {[1..m -> Budgets] : m \in 0..MaxBudgets}

\* sample covariances: symmetric, positive diagonal
SampleCovariances == {Mat(Tau, Tau + 1, y, y) : y \in {0, 1}}

---------------------------------------------------------------------------
(* Problem construction, lines 101-113 *)

\* cvx.Variable(shape=(n,n), PSD=True)
Variable == [shape |-> <<n, n>>, PSD |-> TRUE]

\* sum([(S*Y)[i, i] for i in range(n)])
TraceTerms(Ymat) ==
    [i \in 1..n |-> [op |-> "index", of |-> [op |-> "matmul", left |-> "S", right |-> Ymat],
                     at |-> <<i, i>>]]

\* a plausible slip: cvx.Minimize, as the introduction of the notebook writes
ObjectiveMinimize(Ymat) ==
    [sense |-> "Minimize", plus |-> "log_det(S)", minus |-> TraceTerms(Ymat)]

\* cvx.Maximize(cvx.log_det(S) - sum(...))
Objective(Ymat) ==
    [sense |-> "Maximize", plus |-> "log_det(S)", minus |-> TraceTerms(Ymat)]

\* a plausible slip: the bound is the first budget of the list
ConstraintsFirst(a) == <<[lhs |-> "sum(abs(S))", rel |-> "<=", rhs |-> alphas[1]]>>

\* a plausible slip: one constraint list, made before the loop and extended in
\* every iteration
ConstraintsAccumulated(a) ==
    (IF "constraints" \in DOMAIN prob THEN prob.constraints ELSE <<>>)
        \o <<[lhs |-> "sum(abs(S))", rel |-> "<=", rhs |-> a]>>

\* [cvx.sum(cvx.abs(S)) <= alpha]
Constraints(a) == <<[lhs |-> "sum(abs(S))", rel |-> "<=", rhs |-> a]>>

\* cvx.Problem(obj, constraints)
Problem(Ymat, a) ==
    [variable |-> Variable, objective |-> Objective(Ymat), constraints |-> Constraints(a)]

NoProblem == [variable |-> "none"]

---------------------------------------------------------------------------
(* The solver behind prob.solve() *)

OPTIMAL == "optimal"

Statuses == {OPTIMAL, "infeasible", "unbounded", "error"}

\* With a bound alpha <= 0 the constraint leaves no S of finite log det, so
\* the solver cannot end optimal.
SolverStatuses(p) ==
    IF p.constraints[1].rhs <= 0 THEN Statuses \ {OPTIMAL} ELSE Statuses

\* The values an optimal solve may leave in S.value: positive diagonal, each
\* off-diagonal side either above the tolerance in magnitude (negative) or at
\* the tolerance; symmetric and (within one unit of the tolerance) asymmetric.
SolverValues ==
    {Mat(Tau + 2, Tau + 2, u, l) : u \in {-(Tau + 1), Tau}, l \in {-(Tau + 1), Tau}}

---------------------------------------------------------------------------
(* The run of cell 2 *)

NoError == [type |-> "none"]

\* a plausible slip: the message left empty
FailureErrorBlank == [type |-> "Exception", message |-> ""]

\* Exception('CVXPY Error')
FailureError == [type |-> "Exception", message |-> "CVXPY Error"]

\* a plausible slip: only the solver's own failures are caught
IsFailureErrorOnly(st) == st = "error"

\* prob.status != cvx.OPTIMAL
IsFailure(st) == st /= OPTIMAL

Init ==
    /\ pc = "Idle"
    /\ alphas \in BudgetLists
    /\ Y \in SampleCovariances
    /\ k = 0
    /\ alpha = 0
    /\ prob = NoProblem
    /\ status = "none"
    /\ S = NoValue
    /\ Sid = NoArray
    /\ Ss = <<>>
    /\ SsIds = <<>>
    /\ err = NoError
    /\ solverLog = <<>>
    /\ arg = ZeroMatrix
    /\ res = <<>>

\* a plausible slip: the loop ends one budget early
ForNextOffByOne(i) ==
    IF i + 1 < Len(alphas)
    THEN /\ k' = i + 1
         /\ alpha' = alphas[i + 1]
         /\ pc' = "BuildingProblem"
    ELSE /\ k' = i
         /\ alpha' = alpha
         /\ pc' = "Done"

\* the for statement takes the next budget, or the loop ends
ForNext(i) ==
    IF i < Len(alphas)
    THEN /\ k' = i + 1
         /\ alpha' = alphas[i + 1]
         /\ pc' = "BuildingProblem"
    ELSE /\ k' = i
         /\ alpha' = alpha
         /\ pc' = "Done"

\* lines 93-99: alphas and the empty Ss are set up and the loop is entered
Start ==
    /\ pc = "Idle"
    /\ Ss' = <<>>
    /\ SsIds' = <<>>
    /\ ForNext(0)
    /\ UNCHANGED <<alphas, Y, prob, status, S, Sid, err, solverLog, arg, res>>

\* lines 101-113
Build ==
    /\ pc = "BuildingProblem"
    /\ prob' = Problem(Y, alpha)
    /\ S' = NoValue
    /\ Sid' = NoArray
    /\ status' = "none"
    /\ pc' = "Solving"
    /\ UNCHANGED <<alphas, Y, k, alpha, Ss, SsIds, err, solverLog, arg, res>>

\* lines 114-116: prob.solve(), then the status test
Solve ==
    /\ pc = "Solving"
    /\ \E st \in SolverStatuses(prob) :
        \E v \in (IF st = OPTIMAL THEN SolverValues ELSE {NoValue}) :
            /\ status' = st
            /\ S' = v
            /\ Sid' = (IF st = OPTIMAL THEN NewArray(solverLog) ELSE NoArray)
            /\ solverLog' = Append(solverLog, [prob |-> prob, status |-> st, value |-> v])
            /\ IF IsFailure(st)
               THEN /\ err' = FailureError
                    /\ pc' = "Failed"
               ELSE /\ err' = err
                    /\ pc' = "Thresholding"
    /\ UNCHANGED <<alphas, Y, k, alpha, prob, Ss, SsIds, arg, res>>

\* lines 119-128: R_hat (unused afterwards; np.linalg.inv raises only on a
\* singular value, and the values of an optimal solve have log det finite),
\* the thresholding in place, the append, and the for statement again
ThresholdAndStore ==
    /\ pc = "Thresholding"
    /\ LET t == WrittenArray(Sid, SsIds)
           x == Threshold(S)
       IN  /\ S' = x
           /\ Sid' = t
           /\ Y' = (IF t = ArrayOfY THEN x ELSE Y)
           /\ Ss' = ListExtend(AfterWrite(Ss, SsIds, t, x), x)
           /\ SsIds' = ListExtend(SsIds, t)
    /\ ForNext(k)
    /\ UNCHANGED <<alphas, prob, status, err, solverLog, arg, res>>

Next == Start \/ Build \/ Solve \/ ThresholdAndStore

Spec == Init /\ [][Next]_vars

---------------------------------------------------------------------------
(* The run with a deterministic solver: a problem that was solved before   *)
(* ends with the status and the value it ended with then.                  *)

SolveDet ==
    /\ Solve
    /\ \A j \in 1..Len(solverLog) :
        solverLog[j].prob = prob =>
            /\ status' = solverLog[j].status
            /\ S' = solverLog[j].value

NextDet == Start \/ Build \/ SolveDet \/ ThresholdAndStore

SpecDet == Init /\ [][NextDet]_vars

---------------------------------------------------------------------------
(* The thresholding rule on its own: any matrix, thresholded once and then *)
(* once more.                                                              *)

InitThreshold ==
    /\ pc = "Idle"
    /\ alphas = <<>>
    /\ Y = ZeroMatrix
    /\ k = 0
    /\ alpha = 0
    /\ prob = NoProblem
    /\ status = "none"
    /\ S = NoValue
    /\ Sid = NoArray
    /\ Ss = <<>>
    /\ SsIds = <<>>
    /\ err = NoError
    /\ solverLog = <<>>
    /\ arg \in AllMatrices
    /\ res = <<>>

ThresholdOnce ==
    /\ res = <<>>
    /\ res' = <<Threshold(arg)>>
    /\ UNCHANGED <<pc, alphas, Y, k, alpha, prob, status, S, Sid, Ss, SsIds, err, solverLog, arg>>

ThresholdAgain ==
    /\ Len(res) = 1
    /\ res' = Append(res, Threshold(res[1]))
    /\ UNCHANGED <<pc, alphas, Y, k, alpha, prob, status, S, Sid, Ss, SsIds, err, solverLog, arg>>

NextThreshold == ThresholdOnce \/ ThresholdAgain

SpecThreshold == InitThreshold /\ [][NextThreshold]_vars

---------------------------------------------------------------------------
(* Properties *)

\* T is M with every entry of magnitude at most the tolerance set to 0 and
\* every other entry kept
IsThresholdOf(T, M) ==
    /\ DOMAIN T = DOMAIN M
    /\ \A c \in DOMAIN M :
        /\ (-Tau <= M[c] /\ M[c] <= Tau) => T[c] = 0
        /\ (M[c] < -Tau \/ M[c] > Tau) => T[c] = M[c]

\* the bound of the only constraint of a problem
BoundOf(p) == p.constraints[1].rhs

C1_FailedAt ==
    pc = "Failed" =>
        /\ k \in 1..Len(alphas)
        /\ Len(solverLog) = k
        /\ solverLog[k].status = status
        /\ status /= "optimal"
        /\ Len(Ss) = k - 1

\* C1: a solve that ends with a status other than optimal takes the run to
\* Failed at that budget; in Failed exactly k solver calls and k-1
\* thresholdings have been made (none for a later budget), and no step
\* leaves Failed, so Done is never reached.
C1_Thm ==
    /\ [][(pc = "Solving" /\ status' /= "optimal") => (pc' = "Failed" /\ k' = k)]_vars
    /\ [][pc = "Failed" => UNCHANGED vars]_vars
    /\ []C1_FailedAt

C1_Witness == pc = "Failed" /\ k = 2 /\ Len(alphas) = 3 /\ status = "infeasible"

\* C2 as stated: after a failure the result collection is empty.
C2_Orig == pc = "Failed" => Ss = <<>>

\* C2 as amended: after a failure at the k-th budget the list Ss still holds
\* the k-1 estimates of the budgets before it, in order; nothing is
\* discarded.
C2_Thm ==
    pc = "Failed" =>
        /\ Len(Ss) = k - 1
        /\ \A i \in 1..(k - 1) :
            /\ solverLog[i].status = "optimal"
            /\ IsThresholdOf(Ss[i], solverLog[i].value)

C2_Witness == pc = "Failed" /\ Len(Ss) = 2 /\ Ss[1] /= Ss[2]

\* C3 as stated: with a budget alpha <= 0 in the list the solver is never
\* invoked, no estimate is produced, and the error is InvalidInput.
C3_Orig ==
    (\E i \in 1..Len(alphas) : alphas[i] <= 0) =>
        /\ solverLog = <<>>
        /\ Ss = <<>>
        /\ (pc = "Failed" => err.type = "InvalidInput")

\* C3 as amended: a budget alpha <= 0 is not rejected before the solver.
\* When the loop reaches it the problem is built with that bound and the
\* solver is invoked for it; the only error is the generic one raised after
\* a solve with a non-optimal status, and there is no InvalidInput error.
C3_Thm ==
    /\ err.type /= "InvalidInput"
    /\ \A i \in 1..Len(alphas) :
        (alphas[i] <= 0 /\ k = i) =>
            /\ pc = "Solving" => BoundOf(prob) = alphas[i]
            /\ pc \in {"Thresholding", "Failed", "Done"} =>
                /\ Len(solverLog) = i
                /\ BoundOf(solverLog[i].prob) = alphas[i]
            /\ pc = "Failed" =>
                /\ err = [type |-> "Exception", message |-> "CVXPY Error"]
                /\ solverLog[i].status /= "optimal"

C3_Witness ==
    /\ pc = "Failed"
    /\ k = 2
    /\ alphas[1] > 0
    /\ alphas[2] <= 0
    /\ Len(solverLog) = 2
    /\ Len(Ss) = 1

\* C4 as stated: the error carries the offending budget and the status.
C4_Orig ==
    pc = "Failed" =>
        /\ {"budget", "status"} \subseteq DOMAIN err
        /\ err.budget = alpha
        /\ err.status = status

\* C4 as amended: the error is a generic exception with the fixed message
\* 'CVXPY Error', the same for every budget and status; the offending budget
\* and the status are left in the loop variable alpha and in prob.status.
C4_Thm ==
    pc = "Failed" =>
        /\ err = [type |-> "Exception", message |-> "CVXPY Error"]
        /\ alpha = alphas[k]
        /\ status = solverLog[k].status
        /\ status /= "optimal"

C4_Witness == pc = "Failed" /\ alpha = 2 /\ status = "unbounded"

\* C5: the thresholded matrix is 0 at every entry whose magnitude is at most
\* the tolerance (the tolerance itself included, negative values by
\* magnitude) and is the given entry everywhere else.
C5_Thm ==
    res /= <<>> =>
        /\ DOMAIN res[1] = Cells
        /\ \A c \in Cells :
            /\ (-Tau <= arg[c] /\ arg[c] <= Tau) => res[1][c] = 0
            /\ (arg[c] < -Tau \/ arg[c] > Tau) => res[1][c] = arg[c]

C5_Witness ==
    /\ res /= <<>>
    /\ arg[<<1, 1>>] = -Tau
    /\ arg[<<1, 2>>] = -(Tau + 1)
    /\ arg[<<2, 1>>] = Tau - 1
    /\ arg[<<2, 2>>] = Tau + 1
    /\ res[1] = Mat(0, Tau + 1, -(Tau + 1), 0)

\* C6: the list Ss is at every moment the estimates of the budgets completed
\* so far, in the order of alphas: the i-th one is the thresholded value of
\* the i-th solve, whose bound was the i-th budget; in Done there is one per
\* budget.
C6_Thm ==
    /\ Len(Ss) = (IF pc = "Idle" THEN 0 ELSE IF pc = "Done" THEN Len(alphas) ELSE k - 1)
    /\ \A i \in 1..Len(Ss) :
        /\ BoundOf(solverLog[i].prob) = alphas[i]
        /\ solverLog[i].status = "optimal"
        /\ IsThresholdOf(Ss[i], solverLog[i].value)

C6_Witness ==
    /\ pc = "Done"
    /\ alphas = <<10, 2, 1>>
    /\ Len(Ss) = 3
    /\ Ss[1] /= Ss[2]
    /\ Ss[2] /= Ss[3]
    /\ Ss[1] /= Ss[3]

\* C7 as stated: every collected estimate is exactly symmetric.
C7_Orig == \A i \in 1..Len(Ss) : \A c \in Cells : Ss[i][c] = Ss[i][<<c[2], c[1]>>]

\* C7 as amended: an estimate is exactly symmetric whenever the matrix the
\* solver returned for it is exactly symmetric (thresholding keeps symmetry;
\* it does not create it).
C7_Thm ==
    \A i \in 1..Len(Ss) :
        (\A c \in Cells : solverLog[i].value[c] = solverLog[i].value[<<c[2], c[1]>>])
            => (\A c \in Cells : Ss[i][c] = Ss[i][<<c[2], c[1]>>])

C7_Witness ==
    /\ Len(Ss) >= 1
    /\ solverLog[1].value[<<1, 2>>] = Tau
    /\ solverLog[1].value[<<2, 1>>] = Tau
    /\ Ss[1][<<1, 2>>] = 0
    /\ Ss[1][<<2, 1>>] = 0

\* C8: thresholding a thresholded matrix gives the same matrix.
C8_Thm == Len(res) = 2 => res[2] = res[1]

C8_Witness ==
    /\ Len(res) = 2
    /\ res[1] /= arg
    /\ res[1] /= ZeroMatrix

C11_Thm ==
    \A i \in 1..Len(Ss) :
        /\ \A j \in 1..Len(Ss) : alphas[j] = alphas[i] => Ss[j] = Ss[i]
        /\ \A j \in 1..Len(solverLog) :
            alphas[j] = alphas[i] =>
                /\ solverLog[j].status = "optimal"
                /\ IsThresholdOf(Ss[i], solverLog[j].value)

C11_Witness ==
    /\ pc = "Done"
    /\ alphas = <<2, 1, 2>>
    /\ Len(Ss) = 3
    /\ Ss[1] = Ss[3]
    /\ Ss[1] /= Ss[2]

\* the steps of the state machine other than the entry into Done
C12_Step ==
    \/ /\ pc = "Idle"
       /\ pc' = "BuildingProblem"
       /\ k' = 1
       /\ solverLog' = solverLog
    \/ /\ pc = "BuildingProblem"
       /\ pc' = "Solving"
       /\ k' = k
       /\ solverLog' = solverLog
    \/ /\ pc = "Solving"
       /\ k' = k
       /\ Len(solverLog') = Len(solverLog) + 1
       /\ \/ status' = "optimal" /\ pc' = "Thresholding"
          \/ status' /= "optimal" /\ pc' = "Failed"
    \/ /\ pc = "Thresholding"
       /\ status = "optimal"
       /\ k < Len(alphas)
       /\ pc' = "BuildingProblem"
       /\ k' = k + 1
       /\ solverLog' = solverLog

\* Done entered after the thresholding of the last budget
C12_DoneAfterLast ==
    /\ pc = "Thresholding"
    /\ status = "optimal"
    /\ k = Len(alphas)
    /\ pc' = "Done"
    /\ k' = k
    /\ solverLog' = solverLog

\* Done entered from Idle, no budget having been given
C12_DoneWhenEmpty ==
    /\ pc = "Idle"
    /\ alphas = <<>>
    /\ pc' = "Done"
    /\ solverLog' = solverLog

\* one solver call per budget processed so far, none repeated
C12_OneCallEach ==
    /\ Len(solverLog) = (IF pc \in {"Idle", "BuildingProblem", "Solving"}
                         THEN (IF k = 0 THEN 0 ELSE k - 1) ELSE k)
    /\ \A i \in 1..Len(solverLog) : BoundOf(solverLog[i].prob) = alphas[i]

\* C12 as stated: every step is one of Idle -> BuildingProblem -> Solving ->
\* Thresholding -> (BuildingProblem of the next budget | Done), or Solving ->
\* Failed; Done is entered only after the thresholding of the last budget.
C12_Orig == [][C12_Step \/ C12_DoneAfterLast]_vars

\* C12 as amended: as stated, and a run given no budget goes from Idle to
\* Done at once. For each budget the steps come in the order build, solve,
\* threshold, each once, with one solver call per processed budget;
\* thresholding follows an optimal status only, Failed is entered from
\* Solving only, and no step leaves Done or Failed.
C12_Thm ==
    /\ [][C12_Step \/ C12_DoneAfterLast \/ C12_DoneWhenEmpty]_vars
    /\ []C12_OneCallEach

C12_Witness ==
    /\ pc = "Done"
    /\ Len(alphas) = 3
    /\ Len(solverLog) = 3
    /\ Len(Ss) = 3

\* the array about to be thresholded is not Y and is no element of Ss, and
\* the elements of Ss are arrays of their own
C13_NoAlias ==
    /\ pc = "Thresholding" =>
        /\ Sid /= ArrayOfY
        /\ \A i \in 1..Len(SsIds) : SsIds[i] /= Sid
    /\ \A i \in 1..Len(SsIds) :
        /\ SsIds[i] /= ArrayOfY
        /\ \A j \in 1..Len(SsIds) : i /= j => SsIds[i] /= SsIds[j]

\* C13: no step of an iteration (build, solve, thresholding in place,
\* append) changes Y or an estimate already in Ss, and the array thresholded
\* in an iteration is neither Y nor an array stored in Ss before.
C13_Thm ==
    /\ [][/\ Y' = Y
          /\ \A i \in 1..Len(Ss) : Len(Ss') >= i /\ Ss'[i] = Ss[i]]_vars
    /\ []C13_NoAlias

C13_Witness ==
    /\ pc = "Done"
    /\ Len(Ss) = 3
    /\ Ss[1] /= Ss[3]
    /\ Ss[2] /= Ss[3]
    /\ S = Ss[3]
    /\ S /= solverLog[3].value

====
